---- MODULE Spec2Model ----
(***************************************************************************)
(* The storybook service of ai-book-engine: the request handlers of its    *)
(* source variants, as a state machine over requests in flight.            *)
(*                                                                         *)
(*   p0  src/unnamed/part_000   /generate-character, /create-book          *)
(*   p1  src/unnamed/part_001   /create-book, /generate-image (stores)     *)
(*   s1  src/server.js 1-300    /create-book, /generate-character,         *)
(*                              /generate-image (inline payload)           *)
(*   s2  src/server.js 302-473  /create-book with eager page images        *)
(*   s3  src/server.js 475-598  /create-book, story only                   *)
(*                                                                         *)
(* A handler runs from one await to the next in one step; the upstream     *)
(* capabilities, fetch and the file system resolve or reject each call     *)
(* with any outcome of a small set.                                        *)
(***************************************************************************)
EXTENDS Integers, Sequences, FiniteSets, TLC

VARIABLES
    handler,    \* handler[r]: the route handler serving request r
    pc,         \* pc[r]: the await the handler is suspended at
    body,       \* body[r]: req.body
    loc,        \* loc[r]: the handler's local constants and variables
    resp,       \* resp[r]: the responses sent through res, in order
    calls,      \* calls[r]: the upstream calls issued for r, in order
    upErr,      \* upErr[r]: the error an awaited upstream call rejected with
    seen,       \* seen[r]: what the upstream replies to r's calls carried
    connected,  \* connected[r]: the client's socket is still open
    droppedAt,  \* droppedAt[r]: the await during which the client went away
    files,      \* files[n]: the file public/generated/<n>.png
    writes,     \* the fs.writeFile calls that completed, in order
    issued      \* the names crypto.randomUUID has returned so far

vars == <<handler, pc, body, loc, resp, calls, upErr, seen, connected,
          droppedAt, files, writes, issued>>

--------------------------------------------------------------------------
(* Bounds *)

MaxReq == 2          \* requests in flight at once (SpecStore)
MaxUpPages == 11     \* longest pages array the text capability replies with

(* Program constants *)

PageCount == 10
HttpBadRequest == 400
HttpThrottled == 429
HttpServerError == 500
HttpOk == 200

ReqIds == 1..MaxReq

--------------------------------------------------------------------------
(* JavaScript values *)

UNDEF == "undefined"
NULL == "null"

\* !!v for a string-or-undefined-or-null value
Truthy(v) == v # UNDEF /\ v # NULL /\ v # ""

\* v || d
OrElse(v, d) == IF Truthy(v) THEN v ELSE d

\* A string whose characters matter (it is trimmed) is a tagged sequence of
\* characters; t = "undefined" is a missing property.
Str(s) == [t |-> "string", s |-> s]
Undef == [t |-> "undefined", s |-> <<>>]
Null == [t |-> "null", s |-> <<>>]

IsBlank(c) == c = " "

RECURSIVE TrimStart(_)
TrimStart(s) ==
    IF s = <<>> THEN <<>>
    ELSE IF IsBlank(Head(s)) THEN TrimStart(Tail(s)) ELSE s

RECURSIVE TrimEnd(_)
TrimEnd(s) ==
    IF s = <<>> THEN <<>>
    ELSE IF IsBlank(s[Len(s)]) THEN TrimEnd(SubSeq(s, 1, Len(s) - 1)) ELSE s

\* String.prototype.trim
Trim(s) == TrimEnd(TrimStart(s))

\* String(v || "").trim()
StringOrEmptyTrim(v) ==
    Str(Trim(IF v.t = "string" /\ v.s # <<>> THEN v.s ELSE <<>>))

\* Array.prototype.slice(0, n)
Slice(seq, n) == SubSeq(seq, 1, IF Len(seq) < n THEN Len(seq) ELSE n)

--------------------------------------------------------------------------
(* Request bodies *)

NoBody ==
    [child_name |-> UNDEF, age |-> UNDEF, story_type |-> UNDEF,
     illustration_style |-> UNDEF, child_photo |-> UNDEF, prompt |-> UNDEF]

NameVals == {UNDEF, "", "Mia"}
AgeVals == {UNDEF, "5"}
StoryVals == {UNDEF, "ocean"}
StyleVals == {UNDEF, "", "Watercolor"}
PhotoVals == {UNDEF, "data:photo"}
PromptVals == {UNDEF, "", "a whale waving"}

\* POST /create-book bodies (child_photo is read by s2 only)
StoryBodies ==
    { [NoBody EXCEPT !.child_name = n, !.age = a, !.story_type = t,
                     !.illustration_style = y] :
        n \in NameVals, a \in AgeVals, t \in StoryVals, y \in StyleVals }

PhotoStoryBodies ==
    { [b EXCEPT !.child_photo = p] : b \in StoryBodies, p \in PhotoVals }

\* POST /generate-character bodies
CharacterBodies ==
    { [NoBody EXCEPT !.child_photo = p, !.illustration_style = y] :
        p \in PhotoVals, y \in StyleVals }

\* POST /generate-image bodies
ImageBodies ==
    { [NoBody EXCEPT !.prompt = q, !.illustration_style = y] :
        q \in PromptVals, y \in StyleVals }

--------------------------------------------------------------------------
(* What the upstream capabilities answer *)

\* An error object: status 0 is an error without a status property.
NoErr == [status |-> 0, code |-> UNDEF, message |-> UNDEF]

UpstreamErr(s, c) == [status |-> s, code |-> c, message |-> "upstream failure"]

\* A network failure, a throttled call (by status, by code), a refused key
UpstreamErrs ==
    { UpstreamErr(0, UNDEF), UpstreamErr(429, UNDEF),
      UpstreamErr(401, "insufficient_quota"), UpstreamErr(401, "invalid_api_key") }

TypeError == [status |-> 0, code |-> UNDEF, message |-> "TypeError"]
SyntaxError == [status |-> 0, code |-> UNDEF, message |-> "SyntaxError"]

\* The rate-limit/quota signal of the provider
IsThrottle(e) == e.status = 429 \/ e.code = "insufficient_quota"

\* Page texts: missing, empty, blank, padded, plain
TextVals == {Undef, Str(<<>>), Str(<<" ">>), Str(<<" ", "a", " ">>), Str(<<"a">>)}

\* One element of book.pages: an object with text and imagePrompt, or null
NullPage == [isNull |-> TRUE, text |-> Undef, imagePrompt |-> Undef]
PageVals ==
    {NullPage} \cup
    { [isNull |-> FALSE, text |-> t, imagePrompt |-> t] : t \in TextVals }

\* The message content of a chat completion asked for a JSON object.
\*   content "nochoices": no choices[0].message   "empty": content is ""
\*           "invalid": not JSON                   "json": a JSON object
\* book.pages is absent, not an array, or an array of n equal pages.
Doc(c, t, k, ps) ==
    [content |-> c, title |-> t, subtitle |-> t, pagesKind |-> k, pages |-> ps]

DocVals ==
    { Doc(c, UNDEF, "absent", <<>>) : c \in {"nochoices", "empty", "invalid"} }
    \cup { Doc("json", t, k, <<>>) :
             t \in {UNDEF, "Sea Tale"}, k \in {"absent", "notarray"} }
    \cup { Doc("json", t, "array", [i \in 1..n |-> p]) :
             t \in {UNDEF, "Sea Tale"}, n \in 0..MaxUpPages, p \in PageVals }

\* The message content of a chat completion asked for a description
DescriptionVals ==
    { [choices |-> c, content |-> t] :
        c \in {TRUE}, t \in {Null, Str(<<>>), Str(<<" ">>), Str(<<"a", " ">>)} }
    \cup { [choices |-> FALSE, content |-> Undef] }

UpstreamUrl == "https://provider.example/img/1"

\* images.generate: data is undefined, empty, or holds one item
ImageItem(d, u, j, b) == [data |-> d, url |-> u, b64_json |-> j, base64 |-> b]

ImageVals ==
    { ImageItem(d, UNDEF, UNDEF, UNDEF) : d \in {"undefined", "empty"} }
    \cup { ImageItem("item", UNDEF, UNDEF, UNDEF),
           ImageItem("item", UpstreamUrl, UNDEF, UNDEF),
           ImageItem("item", UNDEF, "QQ==", UNDEF),
           ImageItem("item", UNDEF, UNDEF, "Qg=="),
           ImageItem("item", UpstreamUrl, "QQ==", UNDEF) }

NoImage == ImageItem("none", UNDEF, UNDEF, UNDEF)

\* imgResp?.data?.[0] is an object
HasItem(img) == img.data = "item"

\* Buffer.from(b64, "base64") and Buffer.toString("base64") on the payloads used
B64Decode(s) ==
    CASE s = "QQ==" -> <<65>>
      [] s = "Qg==" -> <<66>>
      [] OTHER -> <<>>

B64Encode(bytes) ==
    CASE bytes = <<65>> -> "QQ=="
      [] bytes = <<66>> -> "Qg=="
      [] OTHER -> ""

\* The body fetch(url) downloads
FetchVals == {<<65>>, <<>>}

--------------------------------------------------------------------------
(* Responses *)

\* res.status(http).json({...}): a property the handler does not set is UNDEF
\* (pagesKind "absent"); debug and cover repeat other properties and are left out.
NoResponse ==
    [http |-> HttpOk, status |-> UNDEF, message |-> UNDEF, code |-> UNDEF,
     details |-> UNDEF, error |-> UNDEF, title |-> UNDEF, subtitle |-> UNDEF,
     illustration_style |-> UNDEF, pagesKind |-> "absent", pages |-> <<>>,
     imageUrl |-> UNDEF, imageBase64 |-> UNDEF, characterImage |-> UNDEF,
     characterImageBase64 |-> UNDEF, characterDescription |-> Undef]

ErrorBody(http, message) ==
    [NoResponse EXCEPT !.http = http, !.status = "error", !.message = message]

\* One element of the pages of a response; pageNumber 0: no such property
OutPage(n, text, imagePrompt, imageUrl) ==
    [pageNumber |-> n, text |-> text, imagePrompt |-> imagePrompt,
     imageUrl |-> imageUrl]

\* The handler's locals
NoLoc ==
    [style |-> UNDEF, title |-> UNDEF, subtitle |-> UNDEF, pages |-> <<>>,
     norm |-> <<>>, characterImageUrl |-> UNDEF, characterDescription |-> Undef,
     b64 |-> UNDEF, fileName |-> UNDEF]

\* What seen[r] records of the replies
\*   doc, docLen: the completion's content and the length of its pages array
\*   img: the first data item images.generate resolved with
\*   imgNone: some images.generate reply had neither a URL nor a payload
\*   descEmpty: the description asked for came back missing, empty or blank
NoSeen ==
    [doc |-> "none", docLen |-> 0, img |-> NoImage, imgNone |-> FALSE,
     descEmpty |-> FALSE]

\* An upstream call: the call site, the page it is for (0: none) and the style
\* interpolated into its prompt
Call(site, page, style) == [site |-> site, page |-> page, style |-> style]

--------------------------------------------------------------------------
(* Steps shared by the handlers *)

\* The handler is entered with req.body = b
Enter(r, h, b) ==
    /\ pc[r] = "idle"
    /\ handler' = [handler EXCEPT ![r] = h]
    /\ body' = [body EXCEPT ![r] = b]

\* res.json(response) ends the handler
Respond(r, response) ==
    /\ resp' = [resp EXCEPT ![r] = Append(@, response)]
    /\ pc' = [pc EXCEPT ![r] = "done"]

\* await of an upstream call: the handler suspends at label
Await(r, label, call) ==
    /\ calls' = [calls EXCEPT ![r] = Append(@, call)]
    /\ pc' = [pc EXCEPT ![r] = label]

\* The handler of r is suspended at label
At(r, h, label) == handler[r] = h /\ pc[r] = label

\* The catch block shared by the handlers that tell throttling apart
QuotaCatch(err, quotaMessage, failMessage) ==
    LET status == IF err.status = 0 THEN HttpServerError ELSE err.status
        code == OrElse(err.code, "unknown_error")
        message == OrElse(err.message, failMessage)
    IN  IF status = HttpThrottled \/ code = "insufficient_quota"
        THEN [ErrorBody(HttpThrottled, quotaMessage) EXCEPT !.code = code]
        ELSE [ErrorBody(HttpServerError, failMessage) EXCEPT
                !.code = code, !.details = message]

MissingStoryFields(b) ==
    ~Truthy(b.child_name) \/ ~Truthy(b.age) \/ ~Truthy(b.story_type)

\* JSON.parse(raw) throws
ParseThrows(doc) == doc.content = "invalid"

\* raw = content || "{}"; book = JSON.parse(raw)
ParseBook(doc) ==
    IF doc.content = "json" THEN doc ELSE Doc("json", UNDEF, "absent", <<>>)

\* Array.isArray(book.pages) ? book.pages.slice(0, 10) : []
SlicedPages(book) ==
    IF book.pagesKind = "array" THEN Slice(book.pages, PageCount) ELSE <<>>

SeenDoc(r, doc) ==
    [seen EXCEPT ![r].doc = IF doc.content = "json" THEN doc.pagesKind ELSE doc.content,
                 ![r].docLen = Len(doc.pages)]

--------------------------------------------------------------------------
(* p1: src/unnamed/part_001 *)

P1_StoryQuotaMessage ==
    "OpenAI quota/billing issue. Please enable billing or add credits to generate stories/images."

P1_StoryCatch(err) == QuotaCatch(err, P1_StoryQuotaMessage, "AI generation failed")

\* POST /create-book up to the await of chat.completions.create
P1_CreateBook(r) ==
    \E b \in StoryBodies :
      /\ Enter(r, "p1.createBook", b)
      /\ IF MissingStoryFields(b)
         THEN /\ Respond(r, ErrorBody(HttpBadRequest,
                    "Missing required fields: child_name, age, story_type"))
              /\ UNCHANGED <<loc, calls>>
         ELSE LET style == OrElse(b.illustration_style, "Soft Storybook")
              IN  /\ loc' = [loc EXCEPT ![r].style = style]
                  /\ Await(r, "awaitText", Call("chat.completions.create", 0, style))
                  /\ UNCHANGED resp
      /\ UNCHANGED <<upErr, seen, connected, droppedAt, files, writes, issued>>

\* What /create-book answers once the completion has arrived
P1_BookResponse(style, doc) ==
    IF ParseThrows(doc) THEN P1_StoryCatch(SyntaxError)
    ELSE
      LET book == ParseBook(doc)
          title == OrElse(book.title, "My Magical Story")
          subtitle == OrElse(book.subtitle, "A personalized adventure")
          pages == SlicedPages(book)
      IN  IF Len(pages) # PageCount
          THEN ErrorBody(HttpServerError,
                         "AI returned invalid page count. Expected 10 pages.")
          ELSE IF \E i \in 1..Len(pages) : pages[i].isNull
          THEN P1_StoryCatch(TypeError)
          ELSE [NoResponse EXCEPT
                  !.status = "ok", !.title = title, !.subtitle = subtitle,
                  !.illustration_style = style, !.pagesKind = "array",
                  !.pages = [i \in 1..Len(pages) |->
                               OutPage(i, StringOrEmptyTrim(pages[i].text),
                                       StringOrEmptyTrim(pages[i].imagePrompt), NULL)]]

\* chat.completions.create resolves
P1_CreateBook_Completion(r) ==
    \E doc \in DocVals :
      /\ At(r, "p1.createBook", "awaitText")
      /\ seen' = SeenDoc(r, doc)
      /\ Respond(r, P1_BookResponse(loc[r].style, doc))
      /\ UNCHANGED <<handler, body, loc, calls, upErr, connected, droppedAt,
                     files, writes, issued>>

\* A handler that calls again when the completion fails
P1_CreateBook_Retried(r) ==
    \E err \in UpstreamErrs :
      /\ At(r, "p1.createBook", "awaitText")
      /\ upErr' = [upErr EXCEPT ![r] = err]
      /\ Await(r, "awaitText", calls[r][Len(calls[r])])
      /\ UNCHANGED <<handler, body, loc, resp, seen, connected, droppedAt,
                     files, writes, issued>>

\* chat.completions.create rejects
P1_CreateBook_Rejected(r) ==
    \E err \in UpstreamErrs :
      /\ At(r, "p1.createBook", "awaitText")
      /\ upErr' = [upErr EXCEPT ![r] = err]
      /\ Respond(r, P1_StoryCatch(err))
      /\ UNCHANGED <<handler, body, loc, calls, seen, connected, droppedAt,
                     files, writes, issued>>

P1_ImageQuotaMessage ==
    "OpenAI quota/billing issue. Please enable billing or add credits to generate images."

P1_ImageCatch(err) == QuotaCatch(err, P1_ImageQuotaMessage, "Image generation failed")

\* crypto.randomUUID(): the values it can return next. A version 4 UUID carries
\* 122 random bits; it is taken never to repeat a value it has returned.
Uuids == { "uuid" \o ToString(i) : i \in 1..(MaxReq + 1) }
\* A name generator that can return a name again
RepeatingName(used) == Uuids

RandomUUID(used) == Uuids \ used

NoFile == [owner |-> 0, bytes |-> <<>>]

\* An error of fs.writeFile
FsErrs == { [status |-> 0, code |-> "ENOSPC", message |-> "write failed"] }

\* A handler whose 400 branch lacks its return: it answers and goes on
P1_GenerateImage_NoReturn(r) ==
    \E b \in ImageBodies :
      /\ Enter(r, "p1.generateImage", b)
      /\ resp' = [resp EXCEPT ![r] =
                    IF ~Truthy(b.prompt)
                    THEN Append(@, ErrorBody(HttpBadRequest, "Missing required field: prompt"))
                    ELSE @]
      /\ loc' = [loc EXCEPT ![r].style = OrElse(b.illustration_style, "Soft Storybook")]
      /\ Await(r, "awaitImage",
               Call("images.generate", 0, OrElse(b.illustration_style, "Soft Storybook")))
      /\ UNCHANGED <<upErr, seen, connected, droppedAt, files, writes, issued>>

\* POST /generate-image up to the await of images.generate
P1_GenerateImage(r) ==
    \E b \in ImageBodies :
      /\ Enter(r, "p1.generateImage", b)
      /\ IF ~Truthy(b.prompt)
         THEN /\ Respond(r, ErrorBody(HttpBadRequest, "Missing required field: prompt"))
              /\ UNCHANGED <<loc, calls>>
         ELSE LET style == OrElse(b.illustration_style, "Soft Storybook")
              IN  /\ loc' = [loc EXCEPT ![r].style = style]
                  /\ Await(r, "awaitImage", Call("images.generate", 0, style))
                  /\ UNCHANGED resp
      /\ UNCHANGED <<upErr, seen, connected, droppedAt, files, writes, issued>>

\* item?.b64_json || item?.base64 || null
P1_Payload(img) ==
    IF HasItem(img) THEN OrElse(img.b64_json, OrElse(img.base64, NULL)) ELSE NULL

\* The reply carries neither a URL nor an encoded payload
NoImageIn(img) ==
    \/ ~HasItem(img)
    \/ ~Truthy(img.url) /\ ~Truthy(img.b64_json) /\ ~Truthy(img.base64)

SeenImage(r, img) ==
    [seen EXCEPT
       ![r].img = IF @ = NoImage /\ HasItem(img) THEN img ELSE @,
       ![r].imgNone = @ \/ NoImageIn(img)]

\* images.generate resolves: answer with the URL, or fail, or start the write
P1_GenerateImage_Image(r) ==
    \E img \in ImageVals :
      /\ At(r, "p1.generateImage", "awaitImage")
      /\ seen' = SeenImage(r, img)
      /\ IF HasItem(img) /\ Truthy(img.url)
         THEN /\ Respond(r, [NoResponse EXCEPT !.status = "ok", !.imageUrl = img.url])
              /\ UNCHANGED <<loc, issued>>
         ELSE IF ~Truthy(P1_Payload(img))
         THEN /\ Respond(r, ErrorBody(HttpServerError,
                                      "Image generation failed (no image returned)."))
              /\ UNCHANGED <<loc, issued>>
         ELSE \E u \in RandomUUID(issued) :
                /\ issued' = issued \cup {u}
                /\ loc' = [loc EXCEPT ![r].b64 = P1_Payload(img),
                                      ![r].fileName = u \o ".png"]
                /\ pc' = [pc EXCEPT ![r] = "awaitWrite"]
                /\ UNCHANGED resp
      /\ UNCHANGED <<handler, body, calls, upErr, connected, droppedAt, files, writes>>

\* fs.writeFile(filePath, buffer) resolves: the file holds the decoded payload
P1_GenerateImage_Written(r) ==
    /\ At(r, "p1.generateImage", "awaitWrite")
    /\ files' = [files EXCEPT ![loc[r].fileName] =
                   [owner |-> r, bytes |-> B64Decode(loc[r].b64)]]
    /\ writes' = Append(writes, [req |-> r, name |-> loc[r].fileName,
                                 over |-> files[loc[r].fileName].owner])
    /\ Respond(r, [NoResponse EXCEPT
                     !.status = "ok", !.imageUrl = "/generated/" \o loc[r].fileName])
    /\ UNCHANGED <<handler, body, loc, calls, upErr, seen, connected, droppedAt, issued>>

\* fs.writeFile rejects
P1_GenerateImage_WriteFailed(r) ==
    \E err \in FsErrs :
      /\ At(r, "p1.generateImage", "awaitWrite")
      /\ Respond(r, P1_ImageCatch(err))
      /\ UNCHANGED <<handler, body, loc, calls, upErr, seen, connected, droppedAt,
                     files, writes, issued>>

\* images.generate rejects
P1_GenerateImage_Rejected(r) ==
    \E err \in UpstreamErrs :
      /\ At(r, "p1.generateImage", "awaitImage")
      /\ upErr' = [upErr EXCEPT ![r] = err]
      /\ Respond(r, P1_ImageCatch(err))
      /\ UNCHANGED <<handler, body, loc, calls, seen, connected, droppedAt,
                     files, writes, issued>>

--------------------------------------------------------------------------
(* s3: src/server.js 475-598 *)

S3_StoryCatch(err) == QuotaCatch(err, P1_StoryQuotaMessage, "AI generation failed")

\* POST /create-book up to the await of chat.completions.create
S3_CreateBook(r) ==
    \E b \in { x \in StoryBodies : x.illustration_style = UNDEF } :
      /\ Enter(r, "s3.createBook", b)
      /\ IF MissingStoryFields(b)
         THEN /\ Respond(r, ErrorBody(HttpBadRequest,
                    "Missing required fields: child_name, age, story_type"))
              /\ UNCHANGED calls
         ELSE /\ Await(r, "awaitText", Call("chat.completions.create", 0, UNDEF))
              /\ UNCHANGED resp
      /\ UNCHANGED <<loc, upErr, seen, connected, droppedAt, files, writes, issued>>

\* What /create-book answers once the completion has arrived
S3_BookResponse(doc) ==
    IF ParseThrows(doc) THEN S3_StoryCatch(SyntaxError)
    ELSE
      LET book == ParseBook(doc)
          title == OrElse(book.title, "My Magical Story")
          subtitle == OrElse(book.subtitle, "A personalized adventure")
          pages == SlicedPages(book)
      IN  IF Len(pages) # PageCount
          THEN ErrorBody(HttpServerError,
                         "AI returned invalid page count. Expected 10 pages.")
          ELSE IF \E i \in 1..Len(pages) : pages[i].isNull
          THEN S3_StoryCatch(TypeError)
          ELSE [NoResponse EXCEPT
                  !.status = "ok", !.title = title, !.subtitle = subtitle,
                  !.pagesKind = "array",
                  !.pages = [i \in 1..Len(pages) |->
                               OutPage(i, StringOrEmptyTrim(pages[i].text),
                                       StringOrEmptyTrim(pages[i].imagePrompt), NULL)]]

\* chat.completions.create resolves
S3_CreateBook_Completion(r) ==
    \E doc \in DocVals :
      /\ At(r, "s3.createBook", "awaitText")
      /\ seen' = SeenDoc(r, doc)
      /\ Respond(r, S3_BookResponse(doc))
      /\ UNCHANGED <<handler, body, loc, calls, upErr, connected, droppedAt,
                     files, writes, issued>>

\* chat.completions.create rejects
S3_CreateBook_Rejected(r) ==
    \E err \in UpstreamErrs :
      /\ At(r, "s3.createBook", "awaitText")
      /\ upErr' = [upErr EXCEPT ![r] = err]
      /\ Respond(r, S3_StoryCatch(err))
      /\ UNCHANGED <<handler, body, loc, calls, seen, connected, droppedAt,
                     files, writes, issued>>

--------------------------------------------------------------------------
(* s1: src/server.js 1-300 (lines 69-86, a fragment of browser code pasted
   into the handler, are no part of it) *)

S1_StoryCatch(err) == QuotaCatch(err, P1_StoryQuotaMessage, "AI generation failed")

\* POST /create-book up to the await of chat.completions.create
S1_CreateBook(r) ==
    \E b \in StoryBodies :
      /\ Enter(r, "s1.createBook", b)
      /\ IF MissingStoryFields(b)
         THEN /\ Respond(r, ErrorBody(HttpBadRequest,
                    "Missing required fields: child_name, age, story_type"))
              /\ UNCHANGED <<loc, calls>>
         ELSE LET style == OrElse(b.illustration_style, "Soft Storybook")
              IN  /\ loc' = [loc EXCEPT ![r].style = style]
                  /\ Await(r, "awaitText", Call("chat.completions.create", 0, style))
                  /\ UNCHANGED resp
      /\ UNCHANGED <<upErr, seen, connected, droppedAt, files, writes, issued>>

\* What /create-book answers once the completion has arrived: the pages carry
\* text and imagePrompt only
S1_BookResponse(style, doc) ==
    IF ParseThrows(doc) THEN S1_StoryCatch(SyntaxError)
    ELSE
      LET book == ParseBook(doc)
          title == OrElse(book.title, "My Magical Story")
          subtitle == OrElse(book.subtitle, "A personalized adventure")
          pages == SlicedPages(book)
      IN  IF Len(pages) # PageCount
          THEN ErrorBody(HttpServerError,
                         "AI returned invalid page count. Expected 10 pages.")
          ELSE IF \E i \in 1..Len(pages) : pages[i].isNull
          THEN S1_StoryCatch(TypeError)
          ELSE [NoResponse EXCEPT
                  !.status = "ok", !.title = title, !.subtitle = subtitle,
                  !.illustration_style = style, !.pagesKind = "array",
                  !.pages = [i \in 1..Len(pages) |->
                               OutPage(0, StringOrEmptyTrim(pages[i].text),
                                       StringOrEmptyTrim(pages[i].imagePrompt), UNDEF)]]

\* chat.completions.create resolves
S1_CreateBook_Completion(r) ==
    \E doc \in DocVals :
      /\ At(r, "s1.createBook", "awaitText")
      /\ seen' = SeenDoc(r, doc)
      /\ Respond(r, S1_BookResponse(loc[r].style, doc))
      /\ UNCHANGED <<handler, body, loc, calls, upErr, connected, droppedAt,
                     files, writes, issued>>

\* chat.completions.create rejects
S1_CreateBook_Rejected(r) ==
    \E err \in UpstreamErrs :
      /\ At(r, "s1.createBook", "awaitText")
      /\ upErr' = [upErr EXCEPT ![r] = err]
      /\ Respond(r, S1_StoryCatch(err))
      /\ UNCHANGED <<handler, body, loc, calls, seen, connected, droppedAt,
                     files, writes, issued>>

--------------------------------------------------------------------------
(* p0: src/unnamed/part_000 *)

\* catch (err) { res.status(500).json({ error: err.message }) }
P0_Catch(err) ==
    [NoResponse EXCEPT !.http = HttpServerError, !.error = err.message]

\* POST /create-book up to the await of chat.completions.create: no field is
\* checked
P0_CreateBook(r) ==
    \E b \in StoryBodies :
      /\ Enter(r, "p0.createBook", b)
      /\ Await(r, "awaitText",
               Call("chat.completions.create", 0, OrElse(b.illustration_style, "3D Render")))
      /\ UNCHANGED <<loc, resp, upErr, seen, connected, droppedAt, files, writes, issued>>

\* An element of pages as the completion gave it (null: text and imagePrompt null)
P0_RawPage(p) ==
    IF p.isNull THEN OutPage(0, Null, Null, UNDEF)
    ELSE OutPage(0, p.text, p.imagePrompt, UNDEF)

\* { status: "ok", ...JSON.parse(completion.choices[0].message.content) }
P0_BookResponse(doc) ==
    IF doc.content = "nochoices" THEN P0_Catch(TypeError)
    ELSE IF doc.content \in {"empty", "invalid"} THEN P0_Catch(SyntaxError)
    ELSE [NoResponse EXCEPT
            !.status = "ok", !.title = doc.title, !.subtitle = doc.subtitle,
            !.pagesKind = doc.pagesKind,
            !.pages = [i \in 1..Len(doc.pages) |-> P0_RawPage(doc.pages[i])]]

\* chat.completions.create resolves
P0_CreateBook_Completion(r) ==
    \E doc \in DocVals :
      /\ At(r, "p0.createBook", "awaitText")
      /\ seen' = SeenDoc(r, doc)
      /\ Respond(r, P0_BookResponse(doc))
      /\ UNCHANGED <<handler, body, loc, calls, upErr, connected, droppedAt,
                     files, writes, issued>>

\* chat.completions.create rejects
P0_CreateBook_Rejected(r) ==
    \E err \in UpstreamErrs :
      /\ At(r, "p0.createBook", "awaitText")
      /\ upErr' = [upErr EXCEPT ![r] = err]
      /\ Respond(r, P0_Catch(err))
      /\ UNCHANGED <<handler, body, loc, calls, seen, connected, droppedAt,
                     files, writes, issued>>

\* The description came back missing, empty or blank
EmptyDescription(d) == ~d.choices \/ d.content.t # "string" \/ Trim(d.content.s) = <<>>

SeenDescription(r, d) == [seen EXCEPT ![r].descEmpty = EmptyDescription(d)]

\* POST /generate-character up to the await of chat.completions.create
P0_GenerateCharacter(r) ==
    \E b \in CharacterBodies :
      /\ Enter(r, "p0.generateCharacter", b)
      /\ IF ~Truthy(b.child_photo)
         THEN /\ Respond(r, [NoResponse EXCEPT !.http = HttpBadRequest,
                                               !.error = "No photo provided"])
              /\ UNCHANGED calls
         ELSE /\ Await(r, "awaitVision", Call("chat.completions.create", 0, UNDEF))
              /\ UNCHANGED resp
      /\ UNCHANGED <<loc, upErr, seen, connected, droppedAt, files, writes, issued>>

\* { status: "ok", characterDescription: vision.choices[0].message.content }
P0_CharacterResponse(d) ==
    IF ~d.choices THEN P0_Catch(TypeError)
    ELSE [NoResponse EXCEPT !.status = "ok", !.characterDescription = d.content]

\* chat.completions.create resolves
P0_GenerateCharacter_Vision(r) ==
    \E d \in DescriptionVals :
      /\ At(r, "p0.generateCharacter", "awaitVision")
      /\ seen' = SeenDescription(r, d)
      /\ Respond(r, P0_CharacterResponse(d))
      /\ UNCHANGED <<handler, body, loc, calls, upErr, connected, droppedAt,
                     files, writes, issued>>

\* chat.completions.create rejects
P0_GenerateCharacter_Rejected(r) ==
    \E err \in UpstreamErrs :
      /\ At(r, "p0.generateCharacter", "awaitVision")
      /\ upErr' = [upErr EXCEPT ![r] = err]
      /\ Respond(r, P0_Catch(err))
      /\ UNCHANGED <<handler, body, loc, calls, seen, connected, droppedAt,
                     files, writes, issued>>

--------------------------------------------------------------------------
(* s1, continued: /generate-character and /generate-image *)

\* fetch(url) fails: a network error carries neither status nor code
FetchErrs == { [status |-> 0, code |-> UNDEF, message |-> "fetch failed"] }

\* The errors the call awaited at label can reject with
RejectionsAt(label) == IF label = "awaitFetch" THEN FetchErrs ELSE UpstreamErrs

\* catch (err) of /generate-character: always 500
S1_CharacterCatch(err) ==
    [ErrorBody(HttpServerError, "Character generation failed") EXCEPT
       !.details = err.message]

\* content?.trim() || "Young child character"
S1_CharacterDescription(d) ==
    IF EmptyDescription(d) THEN Str(<<"Young child character">>)
    ELSE Str(Trim(d.content.s))

\* POST /generate-character up to the await of chat.completions.create
S1_GenerateCharacter(r) ==
    \E b \in CharacterBodies :
      /\ Enter(r, "s1.generateCharacter", b)
      /\ IF ~Truthy(b.child_photo)
         THEN /\ Respond(r, ErrorBody(HttpBadRequest, "Missing child_photo"))
              /\ UNCHANGED <<loc, calls>>
         ELSE /\ loc' = [loc EXCEPT
                           ![r].style = OrElse(b.illustration_style, "Soft Storybook")]
              /\ Await(r, "awaitVision", Call("chat.completions.create", 0, UNDEF))
              /\ UNCHANGED resp
      /\ UNCHANGED <<upErr, seen, connected, droppedAt, files, writes, issued>>

\* The description arrives; the reference illustration is asked for
S1_GenerateCharacter_Description(r) ==
    \E d \in DescriptionVals :
      /\ At(r, "s1.generateCharacter", "awaitVision")
      /\ seen' = SeenDescription(r, d)
      /\ loc' = [loc EXCEPT ![r].characterDescription = S1_CharacterDescription(d)]
      /\ Await(r, "awaitImage", Call("images.generate", 0, loc[r].style))
      /\ UNCHANGED <<handler, body, resp, upErr, connected, droppedAt,
                     files, writes, issued>>

S1_CharacterOk(description, imageBase64) ==
    [NoResponse EXCEPT !.status = "ok", !.characterImageBase64 = imageBase64,
                       !.characterDescription = description]

\* images.generate resolves: take b64_json, else download the URL, else null
S1_GenerateCharacter_Image(r) ==
    \E img \in ImageVals :
      /\ At(r, "s1.generateCharacter", "awaitImage")
      /\ seen' = SeenImage(r, img)
      /\ IF HasItem(img) /\ Truthy(img.b64_json)
         THEN /\ Respond(r, S1_CharacterOk(loc[r].characterDescription, img.b64_json))
              /\ UNCHANGED calls
         ELSE IF HasItem(img) /\ Truthy(img.url)
         THEN /\ Await(r, "awaitFetch", Call("fetch", 0, UNDEF))
              /\ UNCHANGED resp
         ELSE /\ Respond(r, S1_CharacterOk(loc[r].characterDescription, NULL))
              /\ UNCHANGED calls
      /\ UNCHANGED <<handler, body, loc, upErr, connected, droppedAt,
                     files, writes, issued>>

\* fetch and arrayBuffer resolve
S1_GenerateCharacter_Fetched(r) ==
    \E bytes \in FetchVals :
      /\ At(r, "s1.generateCharacter", "awaitFetch")
      /\ Respond(r, S1_CharacterOk(loc[r].characterDescription, B64Encode(bytes)))
      /\ UNCHANGED <<handler, body, loc, calls, upErr, seen, connected, droppedAt,
                     files, writes, issued>>

\* The awaited call rejects
S1_GenerateCharacter_Rejected(r) ==
    \E err \in RejectionsAt(pc[r]) :
      /\ handler[r] = "s1.generateCharacter"
      /\ pc[r] \in {"awaitVision", "awaitImage", "awaitFetch"}
      /\ upErr' = [upErr EXCEPT ![r] = err]
      /\ Respond(r, S1_CharacterCatch(err))
      /\ UNCHANGED <<handler, body, loc, calls, seen, connected, droppedAt,
                     files, writes, issued>>

\* catch (err) of /generate-image: the status of the error is passed on
S1_ImageCatch(err) ==
    LET status == IF err.status = 0 THEN HttpServerError ELSE err.status
        code == OrElse(err.code, "unknown_error")
        message == OrElse(err.message, "Image generation failed")
    IN  [ErrorBody(status, "Image generation failed") EXCEPT
           !.code = code, !.details = message]

\* POST /generate-image up to the await of images.generate
S1_GenerateImage(r) ==
    \E b \in ImageBodies :
      /\ Enter(r, "s1.generateImage", b)
      /\ IF ~Truthy(b.prompt)
         THEN /\ Respond(r, ErrorBody(HttpBadRequest, "Missing required field: prompt"))
              /\ UNCHANGED <<loc, calls>>
         ELSE LET style == OrElse(b.illustration_style, "Soft Storybook")
              IN  /\ loc' = [loc EXCEPT ![r].style = style]
                  /\ Await(r, "awaitImage", Call("images.generate", 0, style))
                  /\ UNCHANGED resp
      /\ UNCHANGED <<upErr, seen, connected, droppedAt, files, writes, issued>>

\* images.generate resolves: answer b64_json, else download the URL, else fail
S1_GenerateImage_Image(r) ==
    \E img \in ImageVals :
      /\ At(r, "s1.generateImage", "awaitImage")
      /\ seen' = SeenImage(r, img)
      /\ IF HasItem(img) /\ Truthy(img.b64_json)
         THEN /\ Respond(r, [NoResponse EXCEPT !.status = "ok",
                                               !.imageBase64 = img.b64_json])
              /\ UNCHANGED calls
         ELSE IF HasItem(img) /\ Truthy(img.url)
         THEN /\ Await(r, "awaitFetch", Call("fetch", 0, UNDEF))
              /\ UNCHANGED resp
         ELSE /\ Respond(r, [ErrorBody(HttpServerError, "Image generation failed")
                               EXCEPT !.code = "no_image_returned"])
              /\ UNCHANGED calls
      /\ UNCHANGED <<handler, body, loc, upErr, connected, droppedAt,
                     files, writes, issued>>

\* fetch and arrayBuffer resolve
S1_GenerateImage_Fetched(r) ==
    \E bytes \in FetchVals :
      /\ At(r, "s1.generateImage", "awaitFetch")
      /\ Respond(r, [NoResponse EXCEPT !.status = "ok",
                                       !.imageBase64 = B64Encode(bytes)])
      /\ UNCHANGED <<handler, body, loc, calls, upErr, seen, connected, droppedAt,
                     files, writes, issued>>

\* The awaited call rejects
S1_GenerateImage_Rejected(r) ==
    \E err \in RejectionsAt(pc[r]) :
      /\ handler[r] = "s1.generateImage"
      /\ pc[r] \in {"awaitImage", "awaitFetch"}
      /\ upErr' = [upErr EXCEPT ![r] = err]
      /\ Respond(r, S1_ImageCatch(err))
      /\ UNCHANGED <<handler, body, loc, calls, seen, connected, droppedAt,
                     files, writes, issued>>

--------------------------------------------------------------------------
(* s2: src/server.js 302-473. The braces of the handler do not balance; it is
   read as its indentation and its statements have it: the page-count check
   closes after its return, the page loop after its push. *)

S2_StoryCatch(err) == QuotaCatch(err, P1_StoryQuotaMessage, "AI generation failed")

\* What images.generate returns (URL or payload) is set by the model and the
\* account, not per call: the items one request receives have one shape.
SameShape(r, img) == seen[r].img = NoImage \/ ~HasItem(img) \/ img = seen[r].img

\* POST /create-book up to the await of chat.completions.create; the prompt
\* interpolates illustration_style as it came
S2_CreateBook(r) ==
    \E b \in PhotoStoryBodies :
      /\ Enter(r, "s2.createBook", b)
      /\ IF MissingStoryFields(b)
         THEN /\ Respond(r, ErrorBody(HttpBadRequest,
                    "Missing required fields: child_name, age, story_type"))
              /\ UNCHANGED calls
         ELSE /\ Await(r, "awaitText",
                       Call("chat.completions.create", 0, b.illustration_style))
              /\ UNCHANGED resp
      /\ UNCHANGED <<loc, upErr, seen, connected, droppedAt, files, writes, issued>>

S2_BookOk(l) ==
    [NoResponse EXCEPT
       !.status = "ok", !.title = l.title, !.subtitle = l.subtitle,
       !.characterImage = l.characterImageUrl, !.pagesKind = "array",
       !.pages = l.norm]

\* The page loop with locals l: the next page's image is asked for, or the
\* book is complete
S2_PageLoop(r, l) ==
    /\ loc' = [loc EXCEPT ![r] = l]
    /\ IF Len(l.norm) = Len(l.pages)
       THEN /\ Respond(r, S2_BookOk(l))
            /\ UNCHANGED calls
       ELSE IF l.pages[Len(l.norm) + 1].isNull
       THEN /\ Respond(r, S2_StoryCatch(TypeError))
            /\ UNCHANGED calls
       ELSE /\ Await(r, "awaitPageImage",
                     Call("images.generate(page)", Len(l.norm) + 1,
                          body[r].illustration_style))
            /\ UNCHANGED resp

\* From the page-count check on, with locals l
S2_CheckPages(r, l) ==
    IF Len(l.pages) # PageCount
    THEN /\ loc' = [loc EXCEPT ![r] = l]
         /\ Respond(r, ErrorBody(HttpServerError,
                                 "AI returned invalid page count. Expected 10 pages."))
         /\ UNCHANGED calls
    ELSE S2_PageLoop(r, l)

\* chat.completions.create resolves: with a photo the character image is asked
\* for before the pages are counted
S2_CreateBook_Completion(r) ==
    \E doc \in DocVals :
      /\ At(r, "s2.createBook", "awaitText")
      /\ seen' = SeenDoc(r, doc)
      /\ IF ParseThrows(doc)
         THEN /\ Respond(r, S2_StoryCatch(SyntaxError))
              /\ UNCHANGED <<loc, calls>>
         ELSE LET book == ParseBook(doc)
                  l == [loc[r] EXCEPT
                          !.title = OrElse(book.title, "My Magical Story"),
                          !.subtitle = OrElse(book.subtitle, "A personalized adventure"),
                          !.pages = SlicedPages(book),
                          !.characterImageUrl = NULL]
              IN  IF Truthy(body[r].child_photo)
                  THEN /\ loc' = [loc EXCEPT ![r] = l]
                       /\ Await(r, "awaitCharacterImage",
                                Call("images.generate(character)", 0,
                                     body[r].illustration_style))
                       /\ UNCHANGED resp
                  ELSE S2_CheckPages(r, l)
      /\ UNCHANGED <<handler, body, upErr, connected, droppedAt, files, writes, issued>>

\* The character image arrives: characterImage.data[0].url
S2_CreateBook_CharacterImage(r) ==
    \E img \in ImageVals :
      /\ At(r, "s2.createBook", "awaitCharacterImage")
      /\ SameShape(r, img)
      /\ seen' = SeenImage(r, img)
      /\ IF ~HasItem(img)
         THEN /\ Respond(r, S2_StoryCatch(TypeError))
              /\ UNCHANGED <<loc, calls>>
         ELSE S2_CheckPages(r, [loc[r] EXCEPT !.characterImageUrl = img.url])
      /\ UNCHANGED <<handler, body, upErr, connected, droppedAt, files, writes, issued>>

\* A page's image arrives: imageResponse.data[0].url goes into the page
S2_CreateBook_PageImage(r) ==
    \E img \in ImageVals :
      /\ At(r, "s2.createBook", "awaitPageImage")
      /\ SameShape(r, img)
      /\ seen' = SeenImage(r, img)
      /\ IF ~HasItem(img)
         THEN /\ Respond(r, S2_StoryCatch(TypeError))
              /\ UNCHANGED <<loc, calls>>
         ELSE LET i == Len(loc[r].norm) + 1
                  p == loc[r].pages[i]
              IN  S2_PageLoop(r, [loc[r] EXCEPT
                    !.norm = Append(@, OutPage(i, StringOrEmptyTrim(p.text),
                                               p.imagePrompt, img.url))])
      /\ UNCHANGED <<handler, body, upErr, connected, droppedAt, files, writes, issued>>

\* The awaited call rejects
S2_CreateBook_Rejected(r) ==
    \E err \in UpstreamErrs :
      /\ handler[r] = "s2.createBook"
      /\ pc[r] \in {"awaitText", "awaitCharacterImage", "awaitPageImage"}
      /\ upErr' = [upErr EXCEPT ![r] = err]
      /\ Respond(r, S2_StoryCatch(err))
      /\ UNCHANGED <<handler, body, loc, calls, seen, connected, droppedAt,
                     files, writes, issued>>

--------------------------------------------------------------------------
(* The client *)

\* The client closes its socket while the handler is suspended; no handler
\* listens for it.
ClientDisconnect(r) ==
    /\ pc[r] \notin {"idle", "done"}
    /\ connected[r]
    /\ connected' = [connected EXCEPT ![r] = FALSE]
    /\ droppedAt' = [droppedAt EXCEPT ![r] = pc[r]]
    /\ UNCHANGED <<handler, pc, body, loc, resp, calls, upErr, seen, files,
                   writes, issued>>

--------------------------------------------------------------------------
(* Specifications *)

Init ==
    /\ handler = [r \in ReqIds |-> "none"]
    /\ pc = [r \in ReqIds |-> "idle"]
    /\ body = [r \in ReqIds |-> NoBody]
    /\ loc = [r \in ReqIds |-> NoLoc]
    /\ resp = [r \in ReqIds |-> <<>>]
    /\ calls = [r \in ReqIds |-> <<>>]
    /\ upErr = [r \in ReqIds |-> NoErr]
    /\ seen = [r \in ReqIds |-> NoSeen]
    /\ connected = [r \in ReqIds |-> TRUE]
    /\ droppedAt = [r \in ReqIds |-> "none"]
    /\ files = [n \in { u \o ".png" : u \in Uuids } |-> NoFile]
    /\ writes = <<>>
    /\ issued = {}

\* The /generate-image handler of p1 serving request r
StoreImage(r) ==
    \/ P1_GenerateImage(r)
    \/ P1_GenerateImage_Image(r)
    \/ P1_GenerateImage_Rejected(r)
    \/ P1_GenerateImage_Written(r)
    \/ P1_GenerateImage_WriteFailed(r)

\* Any handler of any variant serving request r
Serve(r) ==
    \/ P1_CreateBook(r)
    \/ P1_CreateBook_Completion(r)
    \/ P1_CreateBook_Rejected(r)
    \/ StoreImage(r)
    \/ ClientDisconnect(r)
    \/ S3_CreateBook(r)
    \/ S3_CreateBook_Completion(r)
    \/ S3_CreateBook_Rejected(r)
    \/ S1_CreateBook(r)
    \/ S1_CreateBook_Completion(r)
    \/ S1_CreateBook_Rejected(r)
    \/ P0_CreateBook(r)
    \/ P0_CreateBook_Completion(r)
    \/ P0_CreateBook_Rejected(r)
    \/ P0_GenerateCharacter(r)
    \/ P0_GenerateCharacter_Vision(r)
    \/ P0_GenerateCharacter_Rejected(r)
    \/ S1_GenerateCharacter(r)
    \/ S1_GenerateCharacter_Description(r)
    \/ S1_GenerateCharacter_Image(r)
    \/ S1_GenerateCharacter_Fetched(r)
    \/ S1_GenerateCharacter_Rejected(r)
    \/ S1_GenerateImage(r)
    \/ S1_GenerateImage_Image(r)
    \/ S1_GenerateImage_Fetched(r)
    \/ S1_GenerateImage_Rejected(r)
    \/ S2_CreateBook(r)
    \/ S2_CreateBook_Completion(r)
    \/ S2_CreateBook_CharacterImage(r)
    \/ S2_CreateBook_PageImage(r)
    \/ S2_CreateBook_Rejected(r)

\* One request, through any handler
Next == Serve(1)

Spec == Init /\ [][Next]_vars

\* Concurrent /generate-image requests of p1, interleaved at their awaits
NextStore == \E r \in ReqIds : StoreImage(r)

SpecStore == Init /\ [][NextStore]_vars

\* The handlers of part_001 serving request r
ServeP1(r) ==
    \/ P1_CreateBook(r)
    \/ P1_CreateBook_Completion(r)
    \/ P1_CreateBook_Rejected(r)
    \/ StoreImage(r)
    \/ ClientDisconnect(r)

NextP1 == ServeP1(1)

\* The call r's handler awaits resolves or rejects, and the handler resumes
Settles(r) ==
    \/ P1_CreateBook_Completion(r)
    \/ P1_CreateBook_Rejected(r)
    \/ P1_GenerateImage_Image(r)
    \/ P1_GenerateImage_Rejected(r)
    \/ P1_GenerateImage_Written(r)
    \/ P1_GenerateImage_WriteFailed(r)

\* One request to part_001, every awaited upstream call and file write
\* eventually returning or failing
SpecP1 == Init /\ [][NextP1]_vars /\ WF_vars(Settles(1))

--------------------------------------------------------------------------
(* Properties *)

Done(r) == pc[r] = "done"

\* The response r's handler sent
Answer(r) == resp[r][Len(resp[r])]

IsOk(r) == Done(r) /\ Answer(r).status = "ok"

IsError(r, http) ==
    Done(r) /\ Answer(r).http = http /\ Answer(r).status = "error"

\* C1: whenever POST /create-book answers "ok" (part_000, part_001 and the
\* first handler of server.js), pages has exactly 10 elements and the element
\* at position i carries pageNumber = i.
C1_TenNumberedPages ==
    \A r \in ReqIds :
      handler[r] \in {"p0.createBook", "p1.createBook", "s1.createBook"} /\ IsOk(r)
      => /\ Answer(r).pagesKind = "array"
         /\ Len(Answer(r).pages) = PageCount
         /\ \A i \in 1..Len(Answer(r).pages) : Answer(r).pages[i].pageNumber = i

\* The completion r received held a JSON object whose pages is not an array of
\* exactly 10 elements
WrongPageCount(r) ==
    \/ seen[r].doc \in {"absent", "notarray"}
    \/ seen[r].doc = "array" /\ seen[r].docLen # PageCount

\* C2: when the completion's pages is not an array of exactly 10 elements
\* (shorter, longer, not an array), POST /create-book (part_001 and the last
\* handler of server.js) answers HTTP 500 with status "error", never "ok".
C2_WrongCountRejected ==
    \A r \in ReqIds :
      handler[r] \in {"p1.createBook", "s3.createBook"} /\ Done(r) /\ WrongPageCount(r)
      => IsError(r, HttpServerError)

\* C3: a POST /create-book whose child_name, age or story_type is missing or
\* empty is answered HTTP 400, and no upstream call is ever issued for it.
C3_InvalidInputBeforeCalls ==
    \A r \in ReqIds :
      /\ handler[r] \in {"p0.createBook", "p1.createBook", "s1.createBook"}
      /\ MissingStoryFields(body[r])
      => /\ calls[r] = <<>>
         /\ Done(r) => IsError(r, HttpBadRequest)

\* C4: on /generate-image and /generate-character, when the upstream call
\* failed with status 429 or code "insufficient_quota", the response has
\* HTTP status 429.
C4_ThrottleIs429 ==
    \A r \in ReqIds :
      /\ handler[r] \in {"p1.generateImage", "s1.generateImage", "s1.generateCharacter"}
      /\ Done(r)
      /\ IsThrottle(upErr[r])
      => Answer(r).http = HttpThrottled

\* images.generate gave r an item with a retrieval URL
GotUrl(r) == HasItem(seen[r].img) /\ Truthy(seen[r].img.url)

\* C5: when images.generate returned a retrieval URL, no image reference of an
\* "ok" response (imageUrl of /generate-image, imageUrl of a page) is that URL.
C5_UpstreamUrlNotExposed ==
    \A r \in ReqIds :
      /\ handler[r] \in {"p1.generateImage", "s1.generateImage", "s2.createBook"}
      /\ IsOk(r)
      /\ GotUrl(r)
      => /\ Answer(r).imageUrl # seen[r].img.url
         /\ \A i \in 1..Len(Answer(r).pages) :
              Answer(r).pages[i].imageUrl # seen[r].img.url

\* C6: when the first data item of the images.generate reply has neither a URL
\* nor a payload, or there is no item, the illustration call (/generate-image,
\* /generate-character) answers HTTP 500 with status "error", never "ok".
C6_NoImageIsError ==
    \A r \in ReqIds :
      /\ handler[r] \in {"p1.generateImage", "s1.generateImage", "s1.generateCharacter"}
      /\ Done(r)
      /\ seen[r].imgNone
      => IsError(r, HttpServerError)

\* C7: every error response to a failed upstream call, on every endpoint, has
\* an HTTP status among 400, 429 and 500 (whatever status the upstream error
\* carries) and a body with status "error", a message and a code.
C7_ErrorShape ==
    \A r \in ReqIds :
      Done(r) /\ upErr[r] # NoErr
      => /\ Answer(r).http \in {HttpBadRequest, HttpThrottled, HttpServerError}
         /\ Answer(r).status = "error"
         /\ Answer(r).message # UNDEF
         /\ Answer(r).code # UNDEF

\* No call site is used twice for one request (once per page in the page loop)
CalledOnce(r) ==
    \A i, j \in 1..Len(calls[r]) :
      i # j => <<calls[r][i].site, calls[r][i].page>> # <<calls[r][j].site, calls[r][j].page>>

\* C8: no request is retried in-process: each upstream call site is invoked at
\* most once per request (once per page for the page images), and once an
\* upstream call of a request has failed no further upstream call is issued
\* for it.
C8_NoRetry ==
    /\ [](\A r \in ReqIds : CalledOnce(r))
    /\ [][\A r \in ReqIds : upErr[r] # NoErr \/ upErr'[r] # NoErr
                            => calls'[r] = calls[r]]_vars

\* C8 witness: a request that had issued several upstream calls when one of
\* them failed has been answered.
C8_Witness ==
    \E r \in ReqIds : Done(r) /\ upErr[r] # NoErr /\ Len(calls[r]) > 2

\* C9: if the client disconnects while /generate-image (part_001) waits for
\* images.generate, no file is written for that request afterwards.
C9_NoWriteAfterDisconnect ==
    \A r \in ReqIds :
      handler[r] = "p1.generateImage" /\ droppedAt[r] = "awaitImage"
      => \A i \in 1..Len(writes) : writes[i].req # r

\* C10: under any interleaving of concurrent /generate-image requests, no two
\* requests write to the same path, no stored file is overwritten, and an "ok"
\* response with a stored image references the file its own request wrote.
C10_NoWriteContention ==
    /\ \A i \in 1..Len(writes) : writes[i].over = 0
    /\ \A i, j \in 1..Len(writes) : i # j => writes[i].name # writes[j].name
    /\ \A q, r \in ReqIds :
         q # r /\ pc[q] = "awaitWrite" /\ pc[r] = "awaitWrite"
         => loc[q].fileName # loc[r].fileName
    /\ \A r \in ReqIds :
         IsOk(r) /\ loc[r].fileName # UNDEF
         => /\ Answer(r).imageUrl = "/generated/" \o loc[r].fileName
            /\ files[loc[r].fileName].owner = r

\* C10 witness: one request has stored its image and been answered while
\* another request, which has its own file name, is waiting for its write.
C10_Witness ==
    \E q, r \in ReqIds :
      /\ q # r
      /\ IsOk(q) /\ loc[q].fileName # UNDEF /\ files[loc[q].fileName].owner = q
      /\ handler[r] = "p1.generateImage" /\ pc[r] = "awaitWrite"

\* C11: in every "ok" response of POST /create-book (part_001 and the first
\* handler of server.js), each page's text is a string that is non-empty
\* after trimming, whatever text the completion's pages carried.
C11_PageTextNonEmpty ==
    \A r \in ReqIds :
      handler[r] \in {"p1.createBook", "s1.createBook"} /\ IsOk(r)
      => \A i \in 1..Len(Answer(r).pages) :
           /\ Answer(r).pages[i].text.t = "string"
           /\ Trim(Answer(r).pages[i].text.s) # <<>>

\* C12: when /generate-character was given a photo and the description came
\* back missing, empty or blank, and no upstream call failed, the service
\* answers "ok" with a characterDescription that is a non-empty string.
C12_DescriptionFallback ==
    \A r \in ReqIds :
      /\ handler[r] \in {"p0.generateCharacter", "s1.generateCharacter"}
      /\ Done(r)
      /\ seen[r].descEmpty
      /\ upErr[r] = NoErr
      => /\ IsOk(r)
         /\ Answer(r).characterDescription.t = "string"
         /\ Trim(Answer(r).characterDescription.s) # <<>>

\* The style a handler is to use for body b: the caller's value when it is
\* present, else the fixed fallback of the variant
StyleFor(b) ==
    IF Truthy(b.illustration_style) THEN {b.illustration_style}
    ELSE {"Soft Storybook", "3D Render"}

\* C13: on /create-book and /generate-image (part_001, and the eager
\* /create-book of server.js), the style interpolated into every prompt sent
\* upstream, and the illustration_style of an "ok" /create-book response, is
\* the caller's illustration_style when present and the fixed fallback style
\* otherwise, never an undefined or empty value.
C13_StyleDefault ==
    \A r \in ReqIds :
      handler[r] \in {"p1.createBook", "p1.generateImage", "s2.createBook"}
      => /\ \A i \in 1..Len(calls[r]) : calls[r][i].style \in StyleFor(body[r])
         /\ handler[r] # "p1.generateImage" /\ IsOk(r)
            => Answer(r).illustration_style \in StyleFor(body[r])

\* C14: every request to /create-book and /generate-image of part_001, on
\* every path, produces exactly one response: once it is received a response
\* is eventually sent (each awaited call and file write settling), and no
\* second response is ever sent for it.
C14_ExactlyOneResponse ==
    /\ [](\A r \in ReqIds : Len(resp[r]) <= 1)
    /\ \A r \in ReqIds : (pc[r] # "idle") ~> (Done(r) /\ Len(resp[r]) = 1)

\* C14 witness: a /generate-image request whose file write failed has been
\* answered, once, with HTTP 500.
C14_Witness ==
    \E r \in ReqIds :
      /\ handler[r] = "p1.generateImage" /\ Done(r)
      /\ loc[r].fileName # UNDEF
      /\ Len(resp[r]) = 1 /\ Answer(r).http = HttpServerError

====
